---------------------------- MODULE Spec2Model ----------------------------
(***************************************************************************)
(* MetNoPy: retrieval of weather observations from the eklima service.     *)
(* The module models the two get_met_data entry points of the package      *)
(* (metnopy/core.py and metnopy/api.py), the response fetcher get_xml_obs  *)
(* and the XML-to-table conversion xml_obs_to_dict /                       *)
(* xml_observations_to_df.  A call is a sequence of blocking fetches; one  *)
(* action is one fetch together with the conversion and the append that    *)
(* follow it, up to the next fetch, the return or the exception.           *)
(***************************************************************************)
EXTENDS Integers, Sequences, FiniteSets, TLC

VARIABLES
    pc,          \* position of the call: idle, single, first, years, last, returned, raised
    module,      \* which get_met_data runs: "core" or "api"
    args,        \* the arguments of the call
    hours,       \* local variable hours (after the "" expansion)
    year,        \* loop variable of the whole-year loop
    station,     \* api.py: index of the loop variable in stations.split(",")
    weather_df,  \* the running table
    network,     \* every outbound GET so far, with the answer and what came of it
    result,      \* the returned table
    exc          \* the exception that reached the caller

vars == <<pc, module, args, hours, year, station, weather_df, network, result, exc>>

(***************************************************************************)
(* Bounds of the model.                                                    *)
(***************************************************************************)
\* to_date lies at most MaxSpan calendar years after from_date's year
MaxSpan == 2
\* the service holds at most MaxObs observation fragments for one call
MaxObs == 2

(***************************************************************************)
(* Sequence helpers.                                                       *)
(***************************************************************************)
Range(s) == {s[i] : i \in DOMAIN s}

RECURSIVE Concat(_)
Concat(ss) == IF ss = <<>> THEN <<>> ELSE Head(ss) \o Concat(Tail(ss))

RECURSIVE SumLen(_)
SumLen(ss) == IF ss = <<>> THEN 0 ELSE Len(Head(ss)) + SumLen(Tail(ss))

(***************************************************************************)
(* XML elements (xml.etree.ElementTree.Element): tag, the attributes id    *)
(* and from, text, children.  An absent attribute or text is "".           *)
(***************************************************************************)
Element(tag, id, from, text, children) ==
    [tag |-> tag, id |-> id, from |-> from, text |-> text, children |-> children]

NoFrom == 0     \* the fragment carries no "from" attribute

\* <weather element id=code><value>text</value></weather element>
WeatherElement(code, text) ==
    Element("weatherElement", code, NoFrom, "", <<Element("value", "", NoFrom, text, <<>>)>>)

Location(id, els) == Element("location", id, NoFrom, "", els)

\* one observation fragment: all variables of one or more stations at one timestamp
TimeStamp(from, locs) == Element("timeStamp", "", from, "", locs)

(***************************************************************************)
(* Exceptions and results of functions that may raise.                     *)
(***************************************************************************)
NoException == "None"
Ok(v) == [exc |-> NoException, val |-> v]
Raise(e) == [exc |-> e, val |-> <<>>]

(***************************************************************************)
(* HTTP responses.  xml_tree is the parsed body when it is well-formed.    *)
(***************************************************************************)
HttpResponse(status, wellformed, tree) ==
    [status_code |-> status, wellformed |-> wellformed, xml_tree |-> tree]

\* root -> child -> child -> child -> envelope element
Envelope(xml_data) ==
    Element("Envelope", "", NoFrom, "",
      <<Element("Body", "", NoFrom, "",
        <<Element("getMetDataValuesResponse", "", NoFrom, "",
          <<Element("return", "", NoFrom, "", <<xml_data>>)>>)>>)>>)

NoTree == Element("", "", NoFrom, "", <<>>)

\* xml_tree[0][0][0][0]: IndexError when a level has no child
HasEnvelope(tree) ==
    /\ Len(tree.children) > 0
    /\ Len(tree.children[1].children) > 0
    /\ Len(tree.children[1].children[1].children) > 0
    /\ Len(tree.children[1].children[1].children[1].children) > 0

XmlData(tree) == tree.children[1].children[1].children[1].children[1]

StatusOk == 200

\* every Error answer taken for "No data found"
get_xml_obs_any_error_is_empty(response) ==
    IF response.status_code # StatusOk THEN Raise("MetAPIStatusCodeException")
    ELSE IF ~response.wellformed THEN Raise("XMLParsingError")
    ELSE IF ~HasEnvelope(response.xml_tree) THEN Raise("XMLParsingError")
    ELSE LET xml_data == XmlData(response.xml_tree) IN
         IF xml_data.tag # "Metdata" THEN
            IF Len(xml_data.children) = 0 THEN Raise("IndexError")
            ELSE IF xml_data.tag = "Error" THEN Ok(<<>>)
                 ELSE Raise("UnknownXMLTagException")
         ELSE Ok(xml_data.children)

\* get_xml_obs, from the response on: the list of observation fragments or the exception
get_xml_obs(response) ==
    IF response.status_code # StatusOk THEN Raise("MetAPIStatusCodeException")
    ELSE IF ~response.wellformed THEN Raise("XMLParsingError")
    ELSE IF ~HasEnvelope(response.xml_tree) THEN Raise("XMLParsingError")
    ELSE LET xml_data == XmlData(response.xml_tree) IN
         IF xml_data.tag # "Metdata" THEN
            \* text = xml_data[0].text is read before the tag is looked at
            IF Len(xml_data.children) = 0 THEN Raise("IndexError")
            ELSE IF xml_data.tag = "Error" THEN
                    IF xml_data.children[1].text = "No data found" THEN Ok(<<>>)
                    ELSE Raise("InvalidQueryException")
                 ELSE Raise("UnknownXMLTagException")
         ELSE Ok(xml_data.children)

(***************************************************************************)
(* Table cells and column names.                                           *)
(***************************************************************************)
NaN == <<"nan", "">>
Str(text) == <<"str", text>>

Sentinel == "-99999"

\* WEATHER_ELEMENT_TYPES
FloatCodes == {"TA", "TAX", "TAX_12", "TAN", "TAN_12", "TD", "SA", "RA", "RR_12", "RR_24", "FF", "DD"}
IntCodes == {"St.no", "SD"}

\* the column names of the model, in the order Python compares strings
ColumnOrder ==
    <<"Date", "SD", "SD_18700", "SD_68860", "St.no", "St.no_18700", "St.no_68860",
      "TA", "TA_18700", "TA_68860", "Value", "Variable">>

\* pandas builds the columns of a frame made from dicts, and of an appended
\* frame, as the sorted union of the keys
SortedColumns(S) == SelectSeq(ColumnOrder, LAMBDA c : c \in S)

LongColumns == SortedColumns({"Date", "St.no", "Variable", "Value"})

(***************************************************************************)
(* xml_obs_to_dict                                                         *)
(***************************************************************************)
\* date.replace(tzinfo=UTC).astimezone(tz).replace(tzinfo=None), in whole
\* hours; Europe/Oslo is one hour ahead of UTC (winter time)
UtcOffset(tz) == IF tz = "Europe/Oslo" THEN 1 ELSE 0

LocalDate(from, tz) == IF tz # "UTC" THEN from + UtcOffset(tz) ELSE from

Put(d, k, v) == [x \in (DOMAIN d) \cup {k} |-> IF x = k THEN v ELSE d[x]]

\* observation_dict[el_code] = np.nan or el[0].text
WideValue(text) == IF text = Sentinel THEN NaN ELSE Str(text)

\* the inner loop of the wide branch over one location's weather elements
RECURSIVE WideElements(_, _, _, _)
WideElements(d, els, loc_id, multiple_locations) ==
    IF els = <<>> THEN d
    ELSE LET el == Head(els)
             el_code == IF multiple_locations THEN el.id \o "_" \o loc_id ELSE el.id
         IN WideElements(Put(d, el_code, WideValue(el.children[1].text)),
                         Tail(els), loc_id, multiple_locations)

RECURSIVE WideLocations(_, _, _)
WideLocations(d, locations, multiple_locations) ==
    IF locations = <<>> THEN d
    ELSE WideLocations(
           WideElements(d, Head(locations).children, Head(locations).id, multiple_locations),
           Tail(locations), multiple_locations)

\* the records one location gives in long form: sentinel values are skipped
LongRecord(date, loc_id, el) ==
    [Date |-> date, St_no |-> loc_id, Variable |-> el.id, Value |-> el.children[1].text]

RECURSIVE LongElements(_, _, _)
LongElements(date, loc_id, els) ==
    IF els = <<>> THEN <<>>
    ELSE (IF Head(els).children[1].text # Sentinel
            THEN <<LongRecord(date, loc_id, Head(els))>> ELSE <<>>)
         \o LongElements(date, loc_id, Tail(els))

\* observation_dict is created anew inside the loop over the locations: what is
\* returned holds the records of the last location only
LongLocations(date, locations) ==
    IF locations = <<>> THEN <<>>
    ELSE LET location == locations[Len(locations)]
         IN LongElements(date, location.id, location.children)

\* wide: [Date, vals: key -> cell]; long: the sequence of records
xml_obs_to_dict(xml_observation, tz, long_format) ==
    IF xml_observation.from = NoFrom THEN Raise("TypeError")   \* strptime(None, ...)
    ELSE LET date == LocalDate(xml_observation.from, tz)
             locations == xml_observation.children
             multiple_locations == Len(locations) > 1
         IN IF long_format
              THEN Ok(LongLocations(date, locations))
              ELSE Ok([Date |-> date,
                       vals |-> WideLocations(<<>>, locations, multiple_locations)])

(***************************************************************************)
(* Data frames: the columns in order and the rows in order.  A row holds   *)
(* its Date (the index in wide form, a column in long form) and its cells. *)
(***************************************************************************)
DataFrame(columns, rows) == [columns |-> columns, rows |-> rows]

EmptyFrame == DataFrame(<<>>, <<>>)   \* pd.DataFrame()

\* DataFrame.empty: an axis of length 0
IsEmpty(df) == Len(df.rows) = 0 \/ Len(df.columns) = 0

\* a row over the columns cols (Date is held apart); a column the row has no
\* value for is NaN
Reindex(row, cols) ==
    [Date |-> row.Date,
     cells |-> [c \in Range(cols) \ {"Date"} |-> IF c \in DOMAIN row.cells THEN row.cells[c] ELSE NaN]]

ReindexAll(rows, cols) == [i \in DOMAIN rows |-> Reindex(rows[i], cols)]

\* DataFrame.append: the rows of other after the rows of df, over the union of the columns
df_append(df, other) ==
    LET cols == IF df.columns = other.columns THEN df.columns
                ELSE SortedColumns(Range(df.columns) \cup Range(other.columns))
    IN DataFrame(cols, ReindexAll(df.rows, cols) \o ReindexAll(other.rows, cols))

\* weatherdf[code].apply(float) / .apply(int); int(nan) raises ValueError
CastCell(tp, cell) == IF cell = NaN THEN NaN ELSE <<tp, cell[2]>>

TypeOf(code) == IF code \in FloatCodes THEN "float"
                ELSE IF code \in IntCodes THEN "int" ELSE "str"

CastRow(row) ==
    [Date |-> row.Date,
     cells |-> [c \in DOMAIN row.cells |->
                  IF TypeOf(c) = "str" THEN row.cells[c] ELSE CastCell(TypeOf(c), row.cells[c])]]

CastFails(rows) ==
    \E i \in DOMAIN rows : \E c \in DOMAIN rows[i].cells :
        TypeOf(c) = "int" /\ rows[i].cells[c] = NaN

\* map(xml_obs_to_dict, observations): the first fragment that raises ends it
RECURSIVE MapObs(_, _, _)
MapObs(observations, tz, long_format) ==
    IF observations = <<>> THEN Ok(<<>>)
    ELSE LET d == xml_obs_to_dict(Head(observations), tz, long_format)
             rest == MapObs(Tail(observations), tz, long_format)
         IN IF d.exc # NoException THEN Raise(d.exc)
            ELSE IF rest.exc # NoException THEN Raise(rest.exc)
            ELSE Ok(<<d.val>> \o rest.val)

LongRow(rec) ==
    [Date |-> rec.Date,
     cells |-> [c \in {"St.no", "Variable", "Value"} |->
                  IF c = "St.no" THEN Str(rec.St_no)
                  ELSE IF c = "Variable" THEN Str(rec.Variable) ELSE Str(rec.Value)]]

WideRow(d, cols) == Reindex([Date |-> d.Date, cells |-> d.vals], cols)

\* reduce(append, map(DataFrame, observation_list)): no initial value, so an
\* empty list raises TypeError
LongFrame(observation_list) ==
    IF observation_list = <<>> THEN Raise("TypeError")
    ELSE LET recs == Concat(observation_list)
         IN Ok(DataFrame(LongColumns, [i \in DOMAIN recs |-> LongRow(recs[i])]))

\* pd.DataFrame(observation_list), set_index("Date") and the casts
WideFrame(observation_list) ==
    IF observation_list = <<>> THEN Ok(EmptyFrame)
    ELSE LET keys == UNION {DOMAIN observation_list[i].vals : i \in DOMAIN observation_list}
             cols == SortedColumns(keys)
             rows == [i \in DOMAIN observation_list |-> WideRow(observation_list[i], cols)]
         IN IF cols = <<>> THEN Ok(DataFrame(cols, rows))
            ELSE IF CastFails(rows) THEN Raise("ValueError")
            ELSE Ok(DataFrame(cols, [i \in DOMAIN rows |-> CastRow(rows[i])]))

xml_observations_to_df(observations, tz, long_format) ==
    LET observation_list == MapObs(observations, tz, long_format)
    IN IF observation_list.exc # NoException THEN Raise(observation_list.exc)
       ELSE IF long_format THEN LongFrame(observation_list.val)
       ELSE WideFrame(observation_list.val)

\* sort_index: the rows in ascending Date order, rows of equal Date in their order
RECURSIVE InsertSorted(_, _)
InsertSorted(sorted, row) ==
    IF sorted = <<>> THEN <<row>>
    ELSE IF sorted[Len(sorted)].Date <= row.Date THEN Append(sorted, row)
    ELSE Append(InsertSorted(SubSeq(sorted, 1, Len(sorted) - 1), row), sorted[Len(sorted)])

RECURSIVE SortRows(_)
SortRows(rows) ==
    IF rows = <<>> THEN <<>>
    ELSE InsertSorted(SortRows(SubSeq(rows, 1, Len(rows) - 1)), rows[Len(rows)])

sort_index(df) == DataFrame(df.columns, SortRows(df.rows))

\* api.py 92-95: columns.remove("St.no") raises ValueError when there is no such
\* column; otherwise St.no is put first and the rest keep their order
StNoFirst(df) ==
    IF "St.no" \notin Range(df.columns) THEN Raise("ValueError")
    ELSE Ok(DataFrame(<<"St.no">> \o SelectSeq(df.columns, LAMBDA c : c # "St.no"), df.rows))

(***************************************************************************)
(* Calendar dates "YYYY-MM-DD" as <<year, month, day>>.                    *)
(***************************************************************************)
YearOf(date) == date[1]          \* date.split("-")[0]
Jan1(y) == <<y, 1, 1>>           \* str(year) + "-01-01"
Dec31(y) == <<y, 12, 31>>        \* str(year) + "-12-31"

\* the loop run up to and including the last year
WholeYears_inclusive(from_date_year, to_date_year) == (from_date_year + 1) .. to_date_year

\* range(int(from_date_year) + 1, int(to_date_year))
WholeYears(from_date_year, to_date_year) == (from_date_year + 1) .. (to_date_year - 1)

\* ",".join(map(str, range(0, 24)))
AllHours == "0,1,2,3,4,5,6,7,8,9,10,11,12,13,14,15,16,17,18,19,20,21,22,23"

ExpandHours(h) == IF h = "" THEN AllHours ELSE h

\* the check of the series type left out
SupportedSeries_unchecked(timeserietypeid) == TRUE

\* if timeserietypeid != "2": raise InvalidQueryException
SupportedSeries(timeserietypeid) == timeserietypeid = "2"

(***************************************************************************)
(* The calls the model makes.                                              *)
(***************************************************************************)
FirstYear == 2015

FromDates == {<<y, md[1], md[2]>> : y \in {FirstYear, FirstYear + 1}, md \in {<<1, 1>>, <<11, 10>>}}
ToDates == {<<y, md[1], md[2]>> : y \in FirstYear .. (FirstYear + MaxSpan),
                                   md \in {<<11, 13>>, <<12, 31>>}}

StationLists == {<<"18700">>, <<"18700", "68860">>}

\* hours, months and timezone of a call
Filters == {[hours |-> "", months |-> "", tz |-> "UTC"],
            [hours |-> "6,18", months |-> "1,7", tz |-> "Europe/Oslo"]}

Calls(formats) ==
    {[timeserietypeid |-> t, stations |-> st, elements |-> "TA,SD",
      from_date |-> f, to_date |-> u, hours |-> fl.hours, months |-> fl.months,
      tz |-> fl.tz, long_format |-> lf] :
        t \in {"2", "0"}, st \in StationLists, f \in FromDates, u \in ToDates,
        fl \in Filters, lf \in formats}

(***************************************************************************)
(* The answers of the service.                                             *)
(***************************************************************************)
\* a timestamp of year y: the year, then the hour inside it
Stamp(y, h) == y * 100 + h

ObsA(y, s) == TimeStamp(Stamp(y, 1), <<Location(s, <<WeatherElement("St.no", s),
                                                   WeatherElement("TA", "5")>>)>>)
ObsB(y, s) == TimeStamp(Stamp(y, 2), <<Location(s, <<WeatherElement("St.no", s),
                                                   WeatherElement("TA", Sentinel)>>)>>)
ObsD(y, s) == TimeStamp(Stamp(y, 2), <<Location(s, <<WeatherElement("SD", Sentinel)>>)>>)
ObsE(s) == TimeStamp(NoFrom, <<Location(s, <<WeatherElement("TA", "5")>>)>>)
ObsC(y, s, t) == TimeStamp(Stamp(y, 1), <<Location(s, <<WeatherElement("TA", "5")>>),
                                         Location(t, <<WeatherElement("TA", "7")>>)>>)
ObsF(y, s, t) == TimeStamp(Stamp(y, 2), <<Location(s, <<WeatherElement("TA", Sentinel)>>),
                                         Location(t, <<WeatherElement("TA", "5")>>)>>)

\* the fragment lists the service may hold for a request: fragments of the
\* requested stations, stamped in the year asked for, in any order
ObservationLists(request) ==
    LET y == YearOf(request.from)
        st == request.stations
    IN IF Len(st) = 1
         THEN {<<ObsA(y, st[1])>>, <<ObsB(y, st[1]), ObsA(y, st[1])>>,
               <<ObsD(y, st[1])>>, <<ObsE(st[1])>>}
         ELSE {<<ObsC(y, st[1], st[2])>>,
               <<ObsF(y, st[1], st[2]), ObsC(y, st[1], st[2])>>}

Message(text) == Element("message", "", NoFrom, text, <<>>)

Metdata(observations) == HttpResponse(StatusOk, TRUE, Envelope(Element("Metdata", "", NoFrom, "", observations)))
ErrorAnswer(children) == HttpResponse(StatusOk, TRUE, Envelope(Element("Error", "", NoFrom, "", children)))
FaultAnswer(children) == HttpResponse(StatusOk, TRUE, Envelope(Element("Fault", "", NoFrom, "", children)))

NoDataFound == ErrorAnswer(<<Message("No data found")>>)

Responses(request) ==
    {Metdata(l) : l \in ObservationLists(request)}
    \cup {NoDataFound,
          ErrorAnswer(<<Message("Invalid station")>>),
          ErrorAnswer(<<>>),
          FaultAnswer(<<Message("fault")>>),
          FaultAnswer(<<>>),
          HttpResponse(500, FALSE, NoTree),
          HttpResponse(StatusOk, FALSE, NoTree),
          HttpResponse(StatusOk, TRUE, NoTree)}

\* the observation fragments a response carries
Fragments(response) ==
    IF response.status_code = StatusOk /\ response.wellformed /\ HasEnvelope(response.xml_tree)
         /\ XmlData(response.xml_tree).tag = "Metdata"
    THEN XmlData(response.xml_tree).children ELSE <<>>

Delivered == SumLen([i \in DOMAIN network |-> Fragments(network[i].response)])

\* what the service may answer to a request now
Answers(request) == {r \in Responses(request) : Delivered + Len(Fragments(r)) <= MaxObs}

(***************************************************************************)
(* get_met_data                                                            *)
(***************************************************************************)
NoTable == DataFrame(<<"(no table)">>, <<>>)

\* before the call: no arguments yet
NoCall ==
    [timeserietypeid |-> "", stations |-> <<>>, elements |-> "", from_date |-> <<0, 0, 0>>,
     to_date |-> <<0, 0, 0>>, hours |-> "", months |-> "", tz |-> "UTC", long_format |-> FALSE]

Init ==
    /\ pc = "idle"
    /\ module = "core"
    /\ args = NoCall
    /\ hours = ""
    /\ year = 0
    /\ station = 1
    /\ weather_df = EmptyFrame
    /\ network = <<>>
    /\ result = NoTable
    /\ exc = NoException

\* lines 244-259 of core.py and 38-52 of api.py: the check of the series type,
\* the expansion of hours, the years, the empty table
Enter(m, a) ==
    /\ pc = "idle"
    /\ module' = m
    /\ args' = a
    /\ weather_df' = EmptyFrame
    /\ station' = 1
    /\ UNCHANGED <<network, result, year>>
    /\ IF ~SupportedSeries(a.timeserietypeid)
         THEN /\ pc' = "raised"
              /\ exc' = "InvalidQueryException"
              /\ UNCHANGED hours
         ELSE /\ hours' = ExpandHours(a.hours)
              /\ pc' = IF YearOf(a.from_date) = YearOf(a.to_date) THEN "single" ELSE "first"
              /\ UNCHANGED exc

get_met_data == \E a \in Calls(BOOLEAN) : Enter("core", a)

api_get_met_data == \E a \in Calls({FALSE}) : Enter("api", a)

Request(stations, from_date, to_date) ==
    [timeserietypeid |-> args.timeserietypeid, stations |-> stations,
     elements |-> args.elements, from |-> from_date, to |-> to_date,
     hours |-> hours, months |-> args.months]

\* api.py 91-97: sort_index and St.no first; core.py returns weather_df as it is
Finish(df) == IF module = "api" THEN StNoFirst(sort_index(df)) ELSE Ok(df)

\* where the call goes after the chunk of a single-year range or of the last year
AfterPass ==
    IF module = "api" /\ station < Len(args.stations)
      THEN [pc |-> IF YearOf(args.from_date) = YearOf(args.to_date) THEN "single" ELSE "first",
            station |-> station + 1, year |-> year]
      ELSE [pc |-> "returned", station |-> station, year |-> year]

\* where the call goes after the chunk of the first year (y = from year) or of whole year y
AfterYear(y) ==
    IF y + 1 \in WholeYears(YearOf(args.from_date), YearOf(args.to_date))
      THEN [pc |-> "years", station |-> station, year |-> y + 1]
      ELSE [pc |-> "last", station |-> station, year |-> year]

\* one chunk: get_xml_obs, xml_observations_to_df, the append to weather_df, and
\* then the next chunk's position, the return or the exception
Chunk(request, response, keep_if_empty, after) ==
    LET xml_obs == get_xml_obs(response)
        tmp_df == IF xml_obs.exc # NoException THEN Raise(xml_obs.exc)
                  ELSE xml_observations_to_df(xml_obs.val, args.tz, args.long_format)
        df == IF tmp_df.exc # NoException THEN weather_df
              ELSE IF keep_if_empty /\ IsEmpty(weather_df) THEN tmp_df.val
              ELSE df_append(weather_df, tmp_df.val)
        final == IF tmp_df.exc # NoException THEN Raise(tmp_df.exc)
                 ELSE IF after.pc = "returned" THEN Finish(df) ELSE Ok(df)
    IN /\ network' = Append(network, [request |-> request, response |-> response,
                                      outcome |-> tmp_df.exc])
       /\ UNCHANGED <<module, args, hours>>
       /\ IF final.exc # NoException
            THEN /\ pc' = "raised"
                 /\ exc' = final.exc
                 /\ UNCHANGED <<weather_df, year, station, result>>
            ELSE /\ pc' = after.pc
                 /\ year' = after.year
                 /\ station' = after.station
                 /\ weather_df' = final.val
                 /\ result' = IF after.pc = "returned" THEN final.val ELSE result
                 /\ UNCHANGED exc

\* core.py 260-266
FetchSingleYear ==
    /\ pc = "single" /\ module = "core"
    /\ LET request == Request(args.stations, args.from_date, args.to_date)
       IN \E response \in Answers(request) :
            Chunk(request, response, TRUE, AfterPass)

\* core.py 270-277
FetchFirstYear ==
    /\ pc = "first" /\ module = "core"
    /\ LET request == Request(args.stations, args.from_date, Dec31(YearOf(args.from_date)))
       IN \E response \in Answers(request) :
            Chunk(request, response, TRUE, AfterYear(YearOf(args.from_date)))

\* core.py 280-290
FetchWholeYear ==
    /\ pc = "years" /\ module = "core"
    /\ LET request == Request(args.stations, Jan1(year), Dec31(year))
       IN \E response \in Answers(request) :
            Chunk(request, response, FALSE, AfterYear(year))

\* core.py 293-298
FetchLastYear ==
    /\ pc = "last" /\ module = "core"
    /\ LET request == Request(args.stations, Jan1(YearOf(args.to_date)), args.to_date)
       IN \E response \in Answers(request) :
            Chunk(request, response, FALSE, AfterPass)

\* api.py 53-59
api_FetchSingleYear ==
    /\ pc = "single" /\ module = "api"
    /\ LET request == Request(<<args.stations[station]>>, args.from_date, args.to_date)
       IN \E response \in Answers(request) :
            Chunk(request, response, TRUE, AfterPass)

\* api.py 63-70
api_FetchFirstYear ==
    /\ pc = "first" /\ module = "api"
    /\ LET request == Request(<<args.stations[station]>>, args.from_date, Dec31(YearOf(args.from_date)))
       IN \E response \in Answers(request) :
            Chunk(request, response, TRUE, AfterYear(YearOf(args.from_date)))

\* api.py 73-83: the whole-year fetch passes stations, the full list
api_FetchWholeYear ==
    /\ pc = "years" /\ module = "api"
    /\ LET request == Request(args.stations, Jan1(year), Dec31(year))
       IN \E response \in Answers(request) :
            Chunk(request, response, FALSE, AfterYear(year))

\* api.py 86-97
api_FetchLastYear ==
    /\ pc = "last" /\ module = "api"
    /\ LET request == Request(<<args.stations[station]>>, Jan1(YearOf(args.to_date)), args.to_date)
       IN \E response \in Answers(request) :
            Chunk(request, response, FALSE, AfterPass)

Next ==
    \/ get_met_data
    \/ api_get_met_data
    \/ FetchSingleYear
    \/ FetchFirstYear
    \/ FetchWholeYear
    \/ FetchLastYear
    \/ api_FetchSingleYear
    \/ api_FetchFirstYear
    \/ api_FetchWholeYear
    \/ api_FetchLastYear

Spec == Init /\ [][Next]_vars

(***************************************************************************)
(* What the claims speak of.                                               *)
(***************************************************************************)
Y1 == YearOf(args.from_date)
Y2 == YearOf(args.to_date)

Running == pc # "idle" /\ SupportedSeries(args.timeserietypeid)

\* the fetches of one pass over the date range
ChunksPerPass == IF Y1 = Y2 THEN 1 ELSE Y2 - Y1 + 1

\* api.py runs the pass once per station, core.py once
Passes == IF module = "api" THEN Len(args.stations) ELSE 1

\* lexicographic order of dates
DateLeq(a, b) ==
    \/ a[1] < b[1]
    \/ a[1] = b[1] /\ a[2] < b[2]
    \/ a[1] = b[1] /\ a[2] = b[2] /\ a[3] <= b[3]

\* the position of fetch i inside its pass, 1 .. ChunksPerPass
PosInPass(i) == ((i - 1) % ChunksPerPass) + 1

StartsJan1(request) == request.from = Jan1(YearOf(request.from))
EndsDec31(request) == request.to = Dec31(YearOf(request.to))

\* every fragment the service delivered during the call, in order
AllDelivered == Concat([i \in DOMAIN network |-> Fragments(network[i].response)])

ChunkFails(response) ==
    \/ response.status_code # StatusOk
    \/ ~response.wellformed
    \/ ~HasEnvelope(response.xml_tree)
    \/ /\ XmlData(response.xml_tree).tag # "Metdata"
       /\ ~(/\ XmlData(response.xml_tree).tag = "Error"
            /\ XmlData(response.xml_tree).children # <<>>
            /\ XmlData(response.xml_tree).children[1].text = "No data found")

C2_FailureAborts ==
    \A i \in DOMAIN network :
        (ChunkFails(network[i].response) \/ network[i].outcome # NoException) =>
            /\ i = Len(network)
            /\ pc = "raised"
            /\ exc # NoException
            /\ exc = network[i].outcome
            /\ result = NoTable

\* a later chunk failed after an earlier chunk had put rows into the table
C2_Witness ==
    /\ pc = "raised"
    /\ Len(network) >= 2
    /\ Len(weather_df.rows) > 0
    /\ network[Len(network)].response.status_code # StatusOk
    /\ exc = "MetAPIStatusCodeException"

(***************************************************************************)
(* C9.  A call with a series type other than "2" has failed with           *)
(* InvalidQueryException and has made no outbound call.                    *)
(***************************************************************************)
C9_UnsupportedSeriesFailsFirst ==
    (pc # "idle" /\ args.timeserietypeid # "2") =>
        /\ pc = "raised"
        /\ exc = "InvalidQueryException"
        /\ network = <<>>
        /\ result = NoTable

C9_Witness ==
    /\ pc = "raised"
    /\ args.timeserietypeid = "0"
    /\ args.long_format
    /\ Len(args.stations) = 2
    /\ network = <<>>

(***************************************************************************)
(* C3.  A chunk answered "No data found" raises nothing, in wide and in    *)
(* long form, and a call whose every chunk was answered "No data found"    *)
(* returns a table of zero rows.                                           *)
(***************************************************************************)
C3_NoDataIsNoError ==
    /\ \A i \in DOMAIN network :
         network[i].response = NoDataFound =>
             /\ network[i].outcome = NoException
             /\ (i = Len(network) => exc = NoException)
    /\ (/\ pc \in {"returned", "raised"}
        /\ network # <<>>
        /\ \A i \in DOMAIN network : network[i].response = NoDataFound)
       => (pc = "returned" /\ Len(result.rows) = 0)

(***************************************************************************)
(* C4.  get_xml_obs classifies every well-formed 200 answer that has an    *)
(* envelope element by its tag: Metdata gives the children, Error with     *)
(* "No data found" gives the empty list, Error with another message raises *)
(* InvalidQueryException, any other tag raises UnknownXMLTagException,     *)
(* with or without children.                                               *)
(***************************************************************************)
C4_Claimed(xml_data) ==
    IF xml_data.tag = "Metdata" THEN Ok(xml_data.children)
    ELSE IF xml_data.tag = "Error"
      THEN IF xml_data.children[1].text = "No data found" THEN Ok(<<>>)
           ELSE Raise("InvalidQueryException")
    ELSE Raise("UnknownXMLTagException")

C5_Column(fragment, location, el) ==
    IF Len(fragment.children) > 1 THEN el.id \o "_" \o location.id ELSE el.id

C5_Wide(fragment, location, el) ==
    LET date == LocalDate(fragment.from, args.tz)
        col == C5_Column(fragment, location, el)
        text == el.children[1].text
    IN IF text = Sentinel
         THEN \E r \in DOMAIN result.rows :
                /\ result.rows[r].Date = date
                /\ col \in DOMAIN result.rows[r].cells
                /\ result.rows[r].cells[col] = NaN
         ELSE \E r \in DOMAIN result.rows :
                /\ result.rows[r].Date = date
                /\ col \in DOMAIN result.rows[r].cells
                /\ result.rows[r].cells[col][2] = text

C5_LongRowOf(row, date, location, el) ==
    /\ row.Date = date
    /\ row.cells["St.no"] = Str(location.id)
    /\ row.cells["Variable"] = Str(el.id)

C5_Long(fragment, location, el) ==
    LET date == LocalDate(fragment.from, args.tz)
        text == el.children[1].text
    IN IF text = Sentinel
         THEN \A r \in DOMAIN result.rows :
                ~C5_LongRowOf(result.rows[r], date, location, el)
         ELSE \E r \in DOMAIN result.rows :
                /\ C5_LongRowOf(result.rows[r], date, location, el)
                /\ result.rows[r].cells["Value"] = Str(text)

C5_SentinelNullOthersKept ==
    pc = "returned" =>
        /\ \A r \in DOMAIN result.rows : \A c \in DOMAIN result.rows[r].cells :
             result.rows[r].cells[c][2] # Sentinel
        /\ \A f \in DOMAIN AllDelivered :
             \A l \in DOMAIN AllDelivered[f].children :
               \A e \in DOMAIN AllDelivered[f].children[l].children :
                 LET fragment == AllDelivered[f]
                     location == fragment.children[l]
                     el == location.children[e]
                 IN IF args.long_format THEN C5_Long(fragment, location, el)
                    ELSE C5_Wide(fragment, location, el)

(***************************************************************************)
(* C6.  The rows of a returned wide table are in non-decreasing order of   *)
(* their timestamps.                                                       *)
(***************************************************************************)
C6_WideRowsSorted ==
    (pc = "returned" /\ ~args.long_format) =>
        \A i \in 1 .. (Len(result.rows) - 1) :
            result.rows[i].Date <= result.rows[i + 1].Date

(***************************************************************************)
(* C7.  A returned wide table has a St.no column and it is the first       *)
(* column.                                                                 *)
(***************************************************************************)
C7_StNoFirstColumn ==
    (pc = "returned" /\ ~args.long_format) =>
        /\ Len(result.columns) > 0
        /\ result.columns[1] = "St.no"

(***************************************************************************)
(* C8.  A returned long table has the columns Date, St.no, Variable and    *)
(* Value and exactly one row for every (location, variable) pair of every  *)
(* delivered fragment whose value is not the sentinel, the locations       *)
(* before the last one included.                                           *)
(***************************************************************************)
RECURSIVE C8_AllLocations(_, _)
C8_AllLocations(date, locations) ==
    IF locations = <<>> THEN <<>>
    ELSE LongElements(date, Head(locations).id, Head(locations).children)
         \o C8_AllLocations(date, Tail(locations))

C8_Records ==
    Concat([f \in DOMAIN AllDelivered |->
              C8_AllLocations(LocalDate(AllDelivered[f].from, args.tz), AllDelivered[f].children)])

C8_LongRowPerPair ==
    (pc = "returned" /\ args.long_format) =>
        /\ Range(result.columns) = {"Date", "St.no", "Variable", "Value"}
        /\ Len(result.columns) = 4
        /\ result.rows = [i \in DOMAIN C8_Records |-> LongRow(C8_Records[i])]

(***************************************************************************)
(* C10.  A call over the years Y1 < Y2 fetches [from_date, Y1-12-31], then *)
(* [Y-01-01, Y-12-31] for every year between in ascending order, then      *)
(* [Y2-01-01, to_date], and nothing else; the ranges are pairwise disjoint *)
(* and cover the days from from_date to to_date; every fetch carries the   *)
(* stations, elements, hours (expanded once) and months of the call.       *)
(***************************************************************************)
C10_Request(i) ==
    [timeserietypeid |-> args.timeserietypeid,
     stations |-> args.stations,
     elements |-> args.elements,
     from |-> IF i = 1 THEN args.from_date ELSE Jan1(Y1 + i - 1),
     to |-> IF i = Y2 - Y1 + 1 THEN args.to_date ELSE Dec31(Y1 + i - 1),
     hours |-> IF args.hours = "" THEN AllHours ELSE args.hours,
     months |-> args.months]

\* the days of the model's calendar inside a range
C10_Days(from, to) ==
    {d \in FromDates \cup ToDates \cup
           {<<y, md[1], md[2]>> : y \in FirstYear .. (FirstYear + MaxSpan),
                                  md \in {<<1, 1>>, <<12, 31>>}} :
        DateLeq(from, d) /\ DateLeq(d, to)}

C10_AscendingYearChunks ==
    (Running /\ Y1 < Y2) =>
        /\ Len(network) <= Y2 - Y1 + 1
        /\ \A i \in DOMAIN network : network[i].request = C10_Request(i)
        /\ \A i, j \in DOMAIN network :
             i # j => C10_Days(network[i].request.from, network[i].request.to)
                        \cap C10_Days(network[j].request.from, network[j].request.to) = {}
        /\ pc = "returned" =>
             /\ Len(network) = Y2 - Y1 + 1
             /\ UNION {C10_Days(network[i].request.from, network[i].request.to) :
                         i \in DOMAIN network}
                  = C10_Days(args.from_date, args.to_date)

=============================================================================
